---- MODULE Spec2Model ----
(***************************************************************************)
(* The users controller of the chat backend (src/src/controllers/users.ts) *)
(* as a state machine over the document store: the users, channels and     *)
(* servers collections, and the answer each request handler gives; and the *)
(* registry of socket connections (src/index.ts, src/src/socket/index.ts). *)
(*                                                                         *)
(* An ObjectId is a number of Ids.  A request carries ids as hex strings;  *)
(* a hex string is modelled by the ObjectId it spells and by whether it is *)
(* spelled in upper case: the driver's toString() always gives the lower   *)
(* case spelling, and its parser accepts both.                             *)
(***************************************************************************)
EXTENDS Integers, Sequences, FiniteSets, TLC

VARIABLES users, channels, servers, nops, last,
          clients, sockets, nsock, sessions, inflight

\* clients: the keys of App.clients; sockets: the live connections, each
\* <<socket id, identity using it>>; nsock: the connections accepted so far;
\* sessions: the identities a session is logged in as; inflight: the bulk
\* add requests whose handler is between two store calls.
net == <<clients, sockets, nsock, sessions, inflight>>

vars == <<users, channels, servers, nops, last,
          clients, sockets, nsock, sessions, inflight>>

(* ------------------------------ bounds -------------------------------- *)

\* Requests handled in one behaviour.
MaxOps == 2

\* Longest id list a request body carries.
MaxBody == 1

\* Socket connections accepted in one behaviour.
MaxSockets == 2

\* Longest channel list of a user, and largest servers collection, that the
\* aggregator is applied to.
MaxChan == 2

\* The ObjectIds in use (users, channels and servers each have their own
\* collection keyed by them).
Ids == {1, 2}

(* --------------------------- ids as strings --------------------------- *)

StrIds == [oid : Ids, upper : BOOLEAN]

\* ObjectId.prototype.toString(), document.id: the lower-case hex spelling.
toString(o) == [oid |-> o, upper |-> FALSE]

\* new mongoose.Types.ObjectId(str), and the cast of a query value: the hex
\* string is parsed whatever its case.
ObjectId(s) == s.oid

(* ------------------------------ arrays -------------------------------- *)

Includes(s, x) == \E i \in DOMAIN s : s[i] = x

Range(s) == {s[i] : i \in DOMAIN s}

MapToString(s) == [i \in DOMAIN s |-> toString(s[i])]

MapObjectId(s) == [i \in DOMAIN s |-> ObjectId(s[i])]

\* [...new Set(s)]: the first occurrence of each value, in order.
RECURSIVE SetSpread(_)
SetSpread(s) ==
  IF s = <<>> THEN <<>>
  ELSE LET r == SetSpread(SubSeq(s, 1, Len(s) - 1))
           x == s[Len(s)]
       IN IF Includes(r, x) THEN r ELSE Append(r, x)

NoDuplicates(s) == \A i, j \in DOMAIN s : s[i] = s[j] => i = j

\* The sequences over S of length lo..hi.
SeqsOf(S, lo, hi) == UNION {[1..n -> S] : n \in lo..hi}

\* The ids of a set in ascending order: the natural (insertion) order of a
\* collection whose ids grow with time.
RECURSIVE Ascending(_)
Ascending(S) ==
  IF S = {} THEN <<>>
  ELSE LET m == CHOOSE x \in S : \A y \in S : x <= y
       IN <<m>> \o Ascending(S \ {m})

(* ------------------------------ documents ----------------------------- *)

RelPaths == {"friends", "invitesTo", "invitesFrom", "invitesToChannels", "joinedChannels"}

\* A user document without relationships, as register makes it:
\* availability: Availability.Online.
NewUser ==
  [exists |-> TRUE, friends |-> <<>>, invitesTo |-> <<>>, invitesFrom |-> <<>>,
   invitesToChannels |-> <<>>, joinedChannels |-> <<>>, availability |-> "Online"]

\* No document under this id.
NoUser == [NewUser EXCEPT !.exists = FALSE]

\* User.findById(id): the id string is cast to an ObjectId.
UserExists(o) == users[o].exists

\* No request kept.
NoRequest ==
  [op |-> "none", id |-> toString(1), action |-> "", remove |-> {}, body |-> <<>>,
   status |-> 0, error |-> "none", hasBody |-> FALSE, out |-> <<>>, pre |-> <<>>,
   auth |-> "", fails |-> "none"]

\* A request and what its handler answered: the status of the response it
\* sent (0: none), the error it passed to next() ("none", "500", or "unset":
\* an error without statusCode), the response body, and the users
\* collection the request found.  For login, register and logout: auth is
\* what authentication gave, fails the store call that failed.
Answer(op, id, action, remove, body, status, error, hasBody, out) ==
  [op |-> op, id |-> id, action |-> action, remove |-> remove, body |-> body,
   status |-> status, error |-> error, hasBody |-> hasBody, out |-> out, pre |-> users,
   auth |-> "", fails |-> "none"]

\* Many clients send requests. The model keeps, in last, the final request
\* of a behaviour and its answer; the requests before it only change the
\* store.
Kept(answer) == IF nops + 1 = MaxOps THEN answer ELSE NoRequest

(* ------------------------- updateUser (PATCH) ------------------------- *)

\* remove branch: the stored ids as strings, without the strings of the
\* body, through a Set, back to ObjectIds.
RemoveValue(old, ids) ==
  MapObjectId(SetSpread(SelectSeq(MapToString(old), LAMBDA id : ~Includes(ids, id))))

\* union branch: the stored ids as strings, then the strings of the body,
\* through a Set, back to ObjectIds.
UnionValue(old, ids) ==
  MapObjectId(SetSpread(MapToString(old) \o ids))

\* The new value of relationship path p: changed only when the body has p.
NewValue(user, remove, body, p) ==
  IF p \in DOMAIN body
  THEN IF p \in remove THEN RemoveValue(user[p], body[p]) ELSE UnionValue(user[p], body[p])
  ELSE user[p]

\* The loop over User.schema.paths, for the relationship paths.
UpdatedUser(user, remove, body) ==
  [exists |-> user.exists,
   friends |-> NewValue(user, remove, body, "friends"),
   invitesTo |-> NewValue(user, remove, body, "invitesTo"),
   invitesFrom |-> NewValue(user, remove, body, "invitesFrom"),
   invitesToChannels |-> NewValue(user, remove, body, "invitesToChannels"),
   joinedChannels |-> NewValue(user, remove, body, "joinedChannels"),
   availability |-> user.availability]

\* The id lists a request body carries.
IdLists == SeqsOf(StrIds, 1, MaxBody)

\* The bodies of the PATCH requests: one relationship path and its list.
UpdateBodies == {p :> l : p \in RelPaths, l \in IdLists}

\* The remove query for a body: absent, or naming the body's paths.
RemoveQueries(body) == {{}, DOMAIN body}

\* The ids of the request paths, as the server hands them out.
PathIds == {toString(o) : o \in Ids}

UpdateUser(id, remove, body) ==
  LET o == ObjectId(id) IN
  /\ nops' = nops + 1
  /\ IF UserExists(o)
     THEN /\ users' = [users EXCEPT ![o] = UpdatedUser(users[o], remove, body)]
          /\ last' = Kept(Answer("updateUser", id, "", remove, body,
                                       200, "none", TRUE, <<users'[o]>>))
     ELSE /\ users' = users
          /\ last' = Kept(Answer("updateUser", id, "", remove, body,
                                       0, "500", FALSE, <<>>))
  /\ UNCHANGED <<channels, servers>>

(* ------------------------- deleteUser (DELETE) ------------------------ *)

DeleteUser(id) ==
  LET o == ObjectId(id) IN
  /\ nops' = nops + 1
  /\ IF UserExists(o)
     THEN /\ users' = [users EXCEPT ![o] = NoUser]
          /\ last' = Kept(Answer("deleteUser", id, "", {}, <<>>,
                                       200, "none", TRUE, <<>>))
     ELSE /\ users' = users
          /\ last' = Kept(Answer("deleteUser", id, "", {}, <<>>,
                                       0, "500", FALSE, <<>>))
  /\ UNCHANGED <<channels, servers>>

(* ------------------------ updateFriends (PATCH) ----------------------- *)

\* validateUserField(friendIds, 'friends'): a non-empty array of id-shaped
\* strings.
validateUserField(friendIds) ==
  /\ friendIds # <<>>
  /\ \A i \in DOMAIN friendIds : friendIds[i] \in [oid : Nat, upper : BOOLEAN]

Actions == {"add", "delete"}

\* The filter gone: the caller's own id stays a candidate.
FilterSelfKeepsAll(friendIds, userId) == friendIds

\* friendIds.filter((id) => id !== userId): a comparison of strings.
FilterSelf(friendIds, userId) == SelectSeq(friendIds, LAMBDA id : id # userId)

\* .populate('friends'): the documents of the friends that exist; an id
\* with no document leaves the populated array.
PopulateUsers(ids) == SelectSeq(ids, UserExists)

\* action=delete: the populated friends whose id string is not a candidate.
FriendsAfterDelete(user, friendIds) ==
  SelectSeq(PopulateUsers(user.friends), LAMBDA f : ~Includes(friendIds, toString(f)))

\* A lookup that takes every candidate for a user.
FoundUsersUnchecked(friendIds) ==
  Ascending({ObjectId(s) : s \in Range(friendIds)})

\* User.find({ _id: { $in: friendIds } }): the candidates are cast to
\* ObjectIds; the users among them, each once, in collection order.
FoundUsers(friendIds) ==
  Ascending({o \in DOMAIN users :
               UserExists(o) /\ o \in {ObjectId(s) : s \in Range(friendIds)}})

\* action=add: the ids of the populated friends and of the found users,
\* through a Set.
FriendsAfterAdd(user, friendIds) ==
  MapObjectId(SetSpread(MapToString(PopulateUsers(user.friends))
                        \o MapToString(FoundUsers(friendIds))))

\* The check of the action gone: the field validation alone decides.
ValidRequestAnyAction(action, friends) == validateUserField(friends)

\* The two checks made before the store is touched: the friends field, then
\* typeof action === 'string' && ['add', 'delete'].includes(action).
ValidRequest(action, friends) ==
  /\ validateUserField(friends)
  /\ action \in Actions

\* A save that also writes the reverse edge on every friend.
SaveFriendsBothSides(o, friends) ==
  [u \in Ids |->
     IF u = o THEN [users[u] EXCEPT !.friends = friends]
     ELSE IF users[u].exists /\ Includes(friends, u)
     THEN [users[u] EXCEPT !.friends = MapObjectId(SetSpread(MapToString(@ \o <<o>>)))]
     ELSE users[u]]

\* user.save(): the document of the request path, with its new friends.
SaveFriends(o, friends) == [users EXCEPT ![o].friends = friends]

UpdateFriends(id, action, friends) ==
  LET o == ObjectId(id)
      friendIds == FilterSelf(friends, id)
  IN
  /\ nops' = nops + 1
  /\ IF ~ValidRequest(action, friends)
     THEN /\ users' = users
          /\ last' = Kept(Answer("updateFriends", id, action, {}, friends,
                                       0, "unset", FALSE, <<>>))
     ELSE IF ~UserExists(o)
     THEN /\ users' = users
          /\ last' = Kept(Answer("updateFriends", id, action, {}, friends,
                                       0, "500", FALSE, <<>>))
     ELSE /\ users' = SaveFriends(o, IF action = "delete"
                                     THEN FriendsAfterDelete(users[o], friendIds)
                                     ELSE FriendsAfterAdd(users[o], friendIds))
          /\ last' = Kept(Answer("updateFriends", id, action, {}, friends,
                                       200, "none", TRUE, users'[o].friends))
  /\ UNCHANGED <<channels, servers>>

(* ----------------------------- getFriends ----------------------------- *)

\* requestErrorHandler(err, next) makes the function that hands err to
\* next(), with status 500 when err carries none; the error reaches the
\* error chain only where that function is called.
requestErrorHandler(called) == IF called THEN "500" ELSE "none"

\* user.friends.map(userDTO): the transfer objects of the populated
\* friends, each with the id string of its document.
ExportedFriends(user) == MapToString(PopulateUsers(user.friends))

\* A missing user is thrown into .catch((err) => requestErrorHandler(err,
\* next)), which makes the function and does not call it.
GetFriends(id) ==
  LET o == ObjectId(id) IN
  /\ nops' = nops + 1
  /\ IF UserExists(o)
     THEN last' = Kept(Answer("getFriends", id, "", {}, <<>>,
                              200, "none", TRUE, ExportedFriends(users[o])))
     ELSE last' = Kept(Answer("getFriends", id, "", {}, <<>>,
                              0, requestErrorHandler(FALSE), FALSE, <<>>))
  /\ UNCHANGED <<users, channels, servers>>

(* ------------------------- getRelatedServers -------------------------- *)

\* The servers collection is a sequence of documents [id, owner] in natural
\* order, each id once; a channel document is [exists, serverId].
ServerIds == {servers[i].id : i \in DOMAIN servers}

ServerById(o) == servers[CHOOSE i \in DOMAIN servers : servers[i].id = o]

\* handleDocumentNotFound(user): whether the document was found.
handleDocumentNotFound(o) == UserExists(o)

\* serverDTO(server): the transfer object of a server document; its id is
\* the document's id string.
serverDTO(server) == [id |-> toString(server.id), owner |-> toString(server.owner)]

\* A populate that leaves a reference to a missing server in place.
PopulateChannelsKeepsRef(ids) ==
  LET found == SelectSeq(ids, LAMBDA c : channels[c].exists)
  IN [i \in DOMAIN found |->
        [id |-> found[i],
         serverId |-> IF channels[found[i]].serverId \in ServerIds
                      THEN <<ServerById(channels[found[i]].serverId)>>
                      ELSE <<[id |-> channels[found[i]].serverId,
                              owner |-> channels[found[i]].serverId]>>]]

\* populate of a channel list with serverId populated: the channel ids that
\* have a document stay, in order; each becomes its channel with serverId
\* replaced by the server document, or by null (here <<>>) when the server
\* does not exist.
PopulateChannels(ids) ==
  LET found == SelectSeq(ids, LAMBDA c : channels[c].exists)
  IN [i \in DOMAIN found |->
        [id |-> found[i],
         serverId |-> IF channels[found[i]].serverId \in ServerIds
                      THEN <<ServerById(channels[found[i]].serverId)>>
                      ELSE <<>>]]

\* .map(channel => server ? serverDTO(server) : null).filter(Boolean)
ChannelServers(populated) ==
  LET kept == SelectSeq(populated, LAMBDA ch : ch.serverId # <<>>)
  IN [i \in DOMAIN kept |-> serverDTO(kept[i].serverId[1])]

\* Server.find({ owner: userId })
OwnedServers(o) == SelectSeq(servers, LAMBDA sv : sv.owner = o)

\* allServers.findIndex((s) => s && s.id === server.id)
FindIndex(all, id) == CHOOSE i \in DOMAIN all : all[i].id = id /\ \A j \in 1..(i - 1) : all[j].id # id

\* The filter gone: every entry kept.
UniqueByIdKeepsAll(all) == all

\* allServers.filter((server, i) => findIndex(same id) === i)
UniqueById(all) ==
  LET keep == {i \in DOMAIN all : FindIndex(all, all[i].id) = i}
      idx == Ascending(keep)
  IN [k \in DOMAIN idx |-> all[idx[k]]]

InvitedServers(o) == ChannelServers(PopulateChannels(users[o].invitesToChannels))

JoinedServers(o) == ChannelServers(PopulateChannels(users[o].joinedChannels))

OwnServers(o) == LET own == OwnedServers(o) IN [i \in DOMAIN own |-> serverDTO(own[i])]

\* The concatenation started from the owned servers.
AllServersOwnFirst(o) == OwnServers(o) \o InvitedServers(o) \o JoinedServers(o)

\* invitedServers.concat(joinedServers, ownServers)
AllServers(o) == InvitedServers(o) \o JoinedServers(o) \o OwnServers(o)

uniqueAllServers(o) == UniqueById(AllServers(o))

GetRelatedServers(id) ==
  LET o == ObjectId(id) IN
  /\ nops' = nops + 1
  /\ IF handleDocumentNotFound(o)
     THEN last' = Kept(Answer("getRelatedServers", id, "", {}, <<>>,
                              200, "none", TRUE, uniqueAllServers(o)))
     ELSE last' = Kept(Answer("getRelatedServers", id, "", {}, <<>>,
                              0, "none", FALSE, <<>>))
  /\ UNCHANGED <<users, channels, servers>>

(* ------------------------- getRelatedChannels ------------------------- *)

\* Channel.find({ $or: [{ _id: { $in: inviteChannelsIDs } },
\*                      { serverId: { $in: ownServersIDs } }] }):
\* the channels found, each once, in collection order.
RelatedChannelsQuery(o) ==
  LET own == OwnedServers(o)
      ownServersIDs == {own[i].id : i \in DOMAIN own}
      inviteChannelsIDs == Range(users[o].invitesToChannels)
  IN Ascending({c \in Ids : /\ channels[c].exists
                            /\ \/ c \in inviteChannelsIDs
                               \/ channels[c].serverId \in ownServersIDs})

\* The handler starts the queries, whose result is only logged, and sends
\* res.status(200).end() at once.
GetRelatedChannels(id) ==
  /\ nops' = nops + 1
  /\ last' = Kept(Answer("getRelatedChannels", id, "", {}, <<>>,
                         200, "none", FALSE, <<>>))
  /\ UNCHANGED <<users, channels, servers>>

(* --------------------------- the graph store -------------------------- *)

\* The two requests that can be in flight together.
Slots == {"x", "y"}

\* A slot without a request.
Idle == [pc |-> "idle", id |-> toString(1), body |-> <<>>, friends |-> <<>>]

NoneInFlight == inflight = [r \in Slots |-> Idle]

\* No socket has connected, no session is logged in and no request is in
\* flight.
NoConnections ==
  /\ clients = {} /\ sockets = {} /\ nsock = 0 /\ sessions = {}
  /\ NoneInFlight

\* The friendships a store starts with: made in pairs, both sides written.
Pairs(E) == {{a, b} : a \in E, b \in E} \ {{a} : a \in E}

Init ==
  /\ \E E \in SUBSET Ids : \E G \in SUBSET Pairs(E) :
       users = [o \in Ids |->
                  IF o \in E
                  THEN [NewUser EXCEPT !.friends = Ascending({b \in E : {o, b} \in G})]
                  ELSE NoUser]
  /\ channels = [c \in Ids |-> [exists |-> FALSE, serverId |-> c]]
  /\ servers = <<>>
  /\ nops = 0
  /\ last = NoRequest
  /\ NoConnections

\* A request can arrive: the behaviour is not at its bound.
Ready == nops < MaxOps

UpdateUserRequest ==
  /\ Ready
  /\ \E id \in PathIds, body \in UpdateBodies :
       \E remove \in RemoveQueries(body) : UpdateUser(id, remove, body)
  /\ UNCHANGED net

DeleteUserRequest ==
  /\ Ready
  /\ \E id \in PathIds : DeleteUser(id)
  /\ UNCHANGED net

UpdateFriendsRequest ==
  /\ Ready
  /\ \E id \in StrIds, action \in Actions \cup {""}, friends \in SeqsOf(StrIds, 0, MaxBody) :
       UpdateFriends(id, action, friends)
  /\ UNCHANGED net

Next ==
  \/ UpdateUserRequest
  \/ DeleteUserRequest
  \/ UpdateFriendsRequest

Spec == Init /\ [][Next]_vars

(* -------------------------- the aggregator ---------------------------- *)

ChannelLists == SeqsOf(Ids, 0, MaxChan)

\* The servers collections owned by the users of E: each id at most once,
\* in any order.
ServerCollections(E) ==
  {sv \in UNION {[1..n -> [id : Ids, owner : E]] : n \in 0..Cardinality(Ids)} :
     \A i, j \in DOMAIN sv : sv[i].id = sv[j].id => i = j}

\* A store for the aggregator: one user with channel lists, any channels
\* (a channel's serverId may name no server), any servers whose owner has
\* a document.
InitAgg ==
  /\ \E E \in SUBSET Ids, u \in Ids, inv \in ChannelLists, joined \in ChannelLists :
       /\ users = [o \in Ids |->
                     IF o \notin E THEN NoUser
                     ELSE IF o = u
                     THEN [NewUser EXCEPT !.invitesToChannels = inv, !.joinedChannels = joined]
                     ELSE NewUser]
       /\ servers \in ServerCollections(E)
  /\ channels \in [Ids -> [exists : BOOLEAN, serverId : Ids]]
  /\ nops = MaxOps - 1
  /\ last = NoRequest
  /\ NoConnections

GetRelatedServersRequest ==
  /\ Ready
  /\ \E id \in PathIds : GetRelatedServers(id)
  /\ UNCHANGED net

GetRelatedChannelsRequest ==
  /\ Ready
  /\ \E id \in PathIds : GetRelatedChannels(id)
  /\ UNCHANGED net

GetFriendsRequest ==
  /\ Ready
  /\ \E id \in PathIds : GetFriends(id)
  /\ UNCHANGED net

NextAgg ==
  \/ GetRelatedServersRequest
  \/ GetRelatedChannelsRequest
  \/ GetFriendsRequest

SpecAgg == InitAgg /\ [][NextAgg]_vars

(* ------------------------- the invite lifecycle ----------------------- *)

\* The controller has no invite or accept handler: a client carries an
\* invite through PATCH /users/:id requests.  The body of an accept names
\* friends and one of the invite paths, and the remove query any of them.
AcceptBodies ==
  UNION {[{"friends", p} -> IdLists] : p \in {"invitesTo", "invitesFrom"}}

\* A store in which a invited b and nothing else has happened.
InitInvite ==
  /\ \E a, b \in Ids :
       /\ a # b
       /\ users = [o \in Ids |->
                     IF o = a THEN [NewUser EXCEPT !.invitesTo = <<b>>]
                     ELSE IF o = b THEN [NewUser EXCEPT !.invitesFrom = <<a>>]
                     ELSE NewUser]
  /\ channels = [c \in Ids |-> [exists |-> FALSE, serverId |-> c]]
  /\ servers = <<>>
  /\ nops = 0
  /\ last = NoRequest
  /\ NoConnections

AcceptInviteRequest ==
  /\ Ready
  /\ \E id \in PathIds, body \in AcceptBodies :
       \E remove \in SUBSET DOMAIN body : UpdateUser(id, remove, body)
  /\ UNCHANGED net

NextInvite ==
  \/ UpdateUserRequest
  \/ AcceptInviteRequest

SpecInvite == InitInvite /\ [][NextInvite]_vars

(* ---------------------- the connection registry ----------------------- *)

\* A registry that keeps the newest connection only.
setClientOnly(id) == {id}

\* App.setClient(id, value): App.clients[id] = value.
setClient(id) == clients \cup {id}

\* App.getClient(id): the socket under the key, or undefined (here <<>>).
getClient(id) == IF id \in clients THEN <<id>> ELSE <<>>

\* connectionsFor(identity): the registered connections identity o uses.
ConnectionsFor(o) == {c \in sockets : c[2] = o /\ c[1] \in clients}

\* bindSocketEvents(socket, io, app), on a connection: the presence
\* transition of the first registered connection of an identity.
PresenceOnRegister(o) ==
  IF ConnectionsFor(o) = {} /\ UserExists(o)
  THEN [users EXCEPT ![o].availability = "Online"]
  ELSE users

\* The presence transition when a connection of o is unregistered and
\* rest are the connections o has left.
PresenceOnUnregister(o, rest) ==
  IF rest = {} /\ UserExists(o)
  THEN [users EXCEPT ![o].availability = "Offline"]
  ELSE users

\* io.on('connection'): a client, using identity o, opens a socket; the
\* transport gives it a new socket id.
Connect(o) ==
  LET id == nsock + 1 IN
  /\ nsock < MaxSockets
  /\ UserExists(o)
  /\ nsock' = id
  /\ sockets' = sockets \cup {<<id, o>>}
  /\ clients' = setClient(id)
  /\ users' = PresenceOnRegister(o)
  /\ UNCHANGED <<channels, servers, nops, last, sessions, inflight>>

\* The disconnect of a live socket: its entry leaves the registry.
Disconnect(c) ==
  /\ c \in sockets
  /\ sockets' = sockets \ {c}
  /\ clients' = clients \ {c[1]}
  /\ users' = PresenceOnUnregister(c[2], ConnectionsFor(c[2]) \ {c})
  /\ UNCHANGED <<channels, servers, nops, last, nsock, sessions, inflight>>

(* ------------------------ register, login, logout --------------------- *)

\* What the store does to a request: nothing, or the named call fails.
RegisterFailures == {"none", "findOne", "save", "logIn"}

LoginFailures == {"none", "findById", "save"}

\* The answer of a request that authenticates.
AuthAnswer(op, id, auth, fails, status, error, hasBody) ==
  Kept([Answer(op, id, "", {}, <<>>, status, error, hasBody, <<>>)
          EXCEPT !.auth = auth, !.fails = fails])

\* register: the form is checked (401), the email looked up (401 when
\* taken), the user saved and logged in; the new document gets ObjectId o.
\* An error of findOne, save or logIn goes to next(err) as it is.
register(o, form, fails) ==
  /\ nops' = nops + 1
  /\ ~UserExists(o)
  /\ IF form = "invalid" \/ (form = "taken" /\ fails # "findOne")
     THEN /\ last' = AuthAnswer("register", toString(o), form, fails, 401, "none", TRUE)
          /\ UNCHANGED <<users, sessions>>
     ELSE IF fails \in {"findOne", "save"}
     THEN /\ last' = AuthAnswer("register", toString(o), form, fails, 0, "unset", FALSE)
          /\ UNCHANGED <<users, sessions>>
     ELSE IF fails = "logIn"
     THEN /\ users' = [users EXCEPT ![o] = NewUser]
          /\ last' = AuthAnswer("register", toString(o), form, fails, 0, "unset", FALSE)
          /\ UNCHANGED sessions
     ELSE /\ users' = [users EXCEPT ![o] = NewUser]
          /\ sessions' = sessions \cup {o}
          /\ last' = AuthAnswer("register", toString(o), form, fails, 200, "none", TRUE)
  /\ UNCHANGED <<channels, servers, clients, sockets, nsock, inflight>>

\* The document is left as it was.
SetOnlineSkipped(user) == user

\* user.availability = Availability.Online
SetOnline(user) == [user EXCEPT !.availability = "Online"]

SetOfflineSkipped(user) == user

\* user.availability = Availability.Offline
SetOffline(user) == [user EXCEPT !.availability = "Offline"]

\* The response sent whatever became of the save.
RespondWithoutSave(fails) == 200

\* user.save().then(() => res.status(200)...): the status sent once the
\* save is through; none (0) when it failed.
RespondAfterSave(fails) == IF fails = "save" THEN 0 ELSE 200

\* What authentication gives a login request: a form that fails the
\* checks (401), an error of the strategy, no user (401), an error of
\* req.logIn, or the user.
LoginOutcomes == {"invalid", "error", "nouser", "loginerr", "user"}

login(o, auth, fails) ==
  /\ nops' = nops + 1
  /\ auth \in {"loginerr", "user"} => UserExists(o)
  /\ IF auth \in {"invalid", "nouser"}
     THEN /\ last' = AuthAnswer("login", toString(o), auth, fails, 401, "none", TRUE)
          /\ UNCHANGED <<users, sessions>>
     ELSE IF auth \in {"error", "loginerr"}
     THEN /\ last' = AuthAnswer("login", toString(o), auth, fails, 0, "unset", FALSE)
          /\ UNCHANGED <<users, sessions>>
     ELSE /\ sessions' = sessions \cup {o}
          /\ IF fails = "findById" \/ ~UserExists(o)
             THEN /\ users' = users
                  /\ last' = AuthAnswer("login", toString(o), auth, fails,
                                        0, requestErrorHandler(TRUE), FALSE)
             ELSE /\ users' = IF fails = "save" THEN users
                              ELSE [users EXCEPT ![o] = SetOnline(@)]
                  /\ last' = AuthAnswer("login", toString(o), auth, fails,
                                        RespondAfterSave(fails),
                                        IF fails = "save" THEN requestErrorHandler(TRUE)
                                        ELSE "none",
                                        fails # "save")
  /\ UNCHANGED <<channels, servers, clients, sockets, nsock, inflight>>

\* What a logout request carries: no user, a user, or a user whose
\* req.logout reports an error.
LogoutOutcomes == {"nouser", "user", "logouterr"}

\* Without req.user the handler sends 200 and goes on to read req.user.id,
\* which throws.  An error of req.logout goes to next(err) and the handler
\* goes on.
logout(o, auth, fails) ==
  /\ nops' = nops + 1
  /\ IF auth = "nouser"
     THEN /\ last' = AuthAnswer("logout", toString(o), auth, fails, 200, "unset", FALSE)
          /\ UNCHANGED <<users, sessions>>
     ELSE /\ o \in sessions
          /\ sessions' = IF auth = "logouterr" THEN sessions ELSE sessions \ {o}
          /\ IF fails = "findById" \/ ~UserExists(o)
             THEN /\ users' = users
                  /\ last' = AuthAnswer("logout", toString(o), auth, fails, 0,
                                        IF auth = "logouterr" THEN "unset"
                                        ELSE requestErrorHandler(TRUE), FALSE)
             ELSE /\ users' = IF fails = "save" THEN users
                              ELSE [users EXCEPT ![o] = SetOffline(@)]
                  /\ last' = AuthAnswer("logout", toString(o), auth, fails,
                                        RespondAfterSave(fails),
                                        IF auth = "logouterr" THEN "unset"
                                        ELSE IF fails = "save" THEN requestErrorHandler(TRUE)
                                        ELSE "none",
                                        FALSE)
  /\ UNCHANGED <<channels, servers, clients, sockets, nsock, inflight>>

\* The process has started: the registry is empty, no session is logged
\* in, and the identities of the store are Offline.
InitRegistry ==
  /\ \E E \in SUBSET Ids :
       users = [o \in Ids |-> IF o \in E THEN SetOffline(NewUser) ELSE NoUser]
  /\ channels = [c \in Ids |-> [exists |-> FALSE, serverId |-> c]]
  /\ servers = <<>>
  /\ nops = 0
  /\ last = NoRequest
  /\ NoConnections

\* A behaviour is followed up to the answer of its last request, which
\* last keeps together with the state the handler left.
ConnectEvent ==
  /\ Ready
  /\ \E o \in Ids : Connect(o)

DisconnectEvent ==
  /\ Ready
  /\ \E c \in sockets : Disconnect(c)

RegisterRequest ==
  /\ Ready
  /\ \E o \in Ids, form \in {"invalid", "taken", "new"}, fails \in RegisterFailures :
       /\ form = "invalid" => fails = "none"
       /\ form = "taken" => (fails \in {"none", "findOne"} /\ \E u \in Ids : UserExists(u))
       /\ register(o, form, fails)

LoginRequest ==
  /\ Ready
  /\ \E o \in Ids, auth \in LoginOutcomes, fails \in LoginFailures :
       /\ auth # "user" => fails = "none"
       /\ login(o, auth, fails)

LogoutRequest ==
  /\ Ready
  /\ \E o \in Ids, auth \in LogoutOutcomes, fails \in LoginFailures :
       /\ auth = "nouser" => fails = "none"
       /\ logout(o, auth, fails)

\* The registry and the requests that bring an identity online.
NextRegistry ==
  \/ ConnectEvent
  \/ DisconnectEvent
  \/ RegisterRequest
  \/ LoginRequest

SpecRegistry == InitRegistry /\ [][NextRegistry]_vars

NextPresence ==
  \/ ConnectEvent
  \/ DisconnectEvent
  \/ RegisterRequest
  \/ LoginRequest
  \/ LogoutRequest

SpecPresence == InitRegistry /\ [][NextPresence]_vars

(* ------------------- bulk adds between their store calls -------------- *)

\* Two candidates other than the caller take three identities.
RaceIds == Ids \cup {Cardinality(Ids) + 1}

\* The candidate lists of the requests in flight, as the server's own id
\* strings.
RaceLists == SeqsOf({toString(o) : o \in RaceIds}, 1, MaxBody)

\* The data layer does not serialise two requests: each reads, computes
\* and writes, and the write of a document read earlier replaces the stored
\* friends whatever was written in between.
StoreWrite(o, friends) == SaveFriends(o, friends)

\* The request arrives: both checks pass and the caller's own id is
\* filtered out; User.findById is started.
AddArrives(r, id, friends) ==
  /\ inflight[r].pc = "idle"
  /\ ValidRequest("add", friends)
  /\ inflight' = [inflight EXCEPT ![r] =
                    [pc |-> "called", id |-> id,
                     body |-> FilterSelf(friends, id), friends |-> <<>>]]
  /\ UNCHANGED <<users, channels, servers, nops, last, clients, sockets, nsock, sessions>>

\* User.findById(userId).populate('friends') resolves: the handler holds
\* the document with its friends as the store has them now; a missing user
\* is thrown to the catch, which passes the error on.
AddReads(r) ==
  LET o == ObjectId(inflight[r].id) IN
  /\ inflight[r].pc = "called"
  /\ inflight' = [inflight EXCEPT ![r] =
                    IF UserExists(o)
                    THEN [inflight[r] EXCEPT !.pc = "read",
                                             !.friends = PopulateUsers(users[o].friends)]
                    ELSE [inflight[r] EXCEPT !.pc = "failed"]]
  /\ UNCHANGED <<users, channels, servers, nops, last, clients, sockets, nsock, sessions>>

\* User.find({ _id: { $in: friendIds } }) resolves: user.friends becomes
\* the friends read, then the users found now, through a Set.
AddFinds(r) ==
  /\ inflight[r].pc = "read"
  /\ inflight' = [inflight EXCEPT ![r] =
                    [inflight[r] EXCEPT
                       !.pc = "found",
                       !.friends = FriendsAfterAdd(inflight[r], inflight[r].body)]]
  /\ UNCHANGED <<users, channels, servers, nops, last, clients, sockets, nsock, sessions>>

\* user.save() resolves.
AddSaves(r) ==
  /\ inflight[r].pc = "found"
  /\ users' = StoreWrite(ObjectId(inflight[r].id), inflight[r].friends)
  /\ inflight' = [inflight EXCEPT ![r].pc = "saved"]
  /\ UNCHANGED <<channels, servers, nops, last, clients, sockets, nsock, sessions>>

\* user.populate('friends') resolves and the 200 is sent.
AddResponds(r) ==
  /\ inflight[r].pc = "saved"
  /\ inflight' = [inflight EXCEPT ![r].pc = "done"]
  /\ UNCHANGED <<users, channels, servers, nops, last, clients, sockets, nsock, sessions>>

\* A store of identities without friends, and no request yet.
InitRace ==
  /\ \E E \in SUBSET RaceIds :
       users = [o \in RaceIds |-> IF o \in E THEN NewUser ELSE NoUser]
  /\ channels = [c \in Ids |-> [exists |-> FALSE, serverId |-> c]]
  /\ servers = <<>>
  /\ nops = 0
  /\ last = NoRequest
  /\ NoConnections

ArriveStep ==
  /\ \E r \in Slots : inflight[r].pc = "idle"
  /\ \E r \in Slots, o \in RaceIds, friends \in RaceLists : AddArrives(r, toString(o), friends)

ReadStep ==
  /\ \E r \in Slots : inflight[r].pc = "called"
  /\ \E r \in Slots : AddReads(r)

FindStep ==
  /\ \E r \in Slots : inflight[r].pc = "read"
  /\ \E r \in Slots : AddFinds(r)

SaveStep ==
  /\ \E r \in Slots : inflight[r].pc = "found"
  /\ \E r \in Slots : AddSaves(r)

RespondStep ==
  /\ \E r \in Slots : inflight[r].pc = "saved"
  /\ \E r \in Slots : AddResponds(r)

NextRace ==
  \/ ArriveStep
  \/ ReadStep
  \/ FindStep
  \/ SaveStep
  \/ RespondStep

SpecRace == InitRace /\ [][NextRace]_vars

(* ============================ properties ============================== *)

\* The user the kept request names.
LastUser == ObjectId(last.id)

Friends(o) == Range(users[o].friends)

(* C1: friendship is symmetric between requests: for all identities A and  *)
(* B, B is in A.friends if and only if A is in B.friends.                  *)
C1_FriendshipSymmetric ==
  \A a, b \in Ids :
    (UserExists(a) /\ UserExists(b)) => (b \in Friends(a) <=> a \in Friends(b))

(* C2: friendship is irreflexive: no identity's friends contains its own   *)
(* id, whatever ids the request bodies carry.                              *)
C2_FriendshipIrreflexive ==
  \A a \in Ids : a \notin Friends(a)

\* The ids of the servers a getRelatedServers answer lists, in order.
OutIds == [i \in DOMAIN last.out |-> ObjectId(last.out[i].id)]

RelatedServersAnswered == last.op = "getRelatedServers" /\ last.status = 200

\* The servers user o reaches through the channels of a list: the channel
\* has a document and its serverId names a server of the collection.
ServersVia(list) ==
  {channels[c].serverId : c \in {d \in Range(list) : channels[d].exists}} \cap ServerIds

InvitedIds(o) == ServersVia(users[o].invitesToChannels)

JoinedIds(o) == ServersVia(users[o].joinedChannels)

OwnedIds(o) == {servers[i].id : i \in {j \in DOMAIN servers : servers[j].owner = o}}

(* C3: relatedServers(U) never returns the same server id twice, also when *)
(* one server is reached through an invited channel, a joined channel and  *)
(* ownership at once.                                                      *)
C3_RelatedServersUnique ==
  RelatedServersAnswered => NoDuplicates(OutIds)

\* A server reached in all three ways is in the answer.
C3_Witness ==
  /\ RelatedServersAnswered
  /\ \E sv \in InvitedIds(LastUser) \cap JoinedIds(LastUser) \cap OwnedIds(LastUser) :
       sv \in Range(OutIds)

\* 1: reached through a pending invite, 2: else through a joined channel,
\* 3: else owned.
Rank(o, sv) == IF sv \in InvitedIds(o) THEN 1 ELSE IF sv \in JoinedIds(o) THEN 2 ELSE 3

\* The place in a channel list of the first channel of server sv.
FirstRef(list, sv) ==
  CHOOSE i \in DOMAIN list :
    /\ channels[list[i]].exists /\ channels[list[i]].serverId = sv
    /\ \A j \in 1..(i - 1) : ~(channels[list[j]].exists /\ channels[list[j]].serverId = sv)

\* The scenario of the specification: U owns S1, is invited to a channel of
\* S2 and has joined another channel of S2.
Scenario(o) ==
  /\ OwnedIds(o) = {1}
  /\ \E c, d \in Ids :
       /\ c # d
       /\ users[o].invitesToChannels = <<c>> /\ users[o].joinedChannels = <<d>>
       /\ channels[c] = [exists |-> TRUE, serverId |-> 2]
       /\ channels[d] = [exists |-> TRUE, serverId |-> 2]
  /\ 2 \in ServerIds

(* C4: relatedServers(U) lists the servers of pending invites, then of     *)
(* joined channels, then the owned servers, each server once at its first  *)
(* occurrence; in the scenario the answer is exactly [S2, S1].             *)
C4_RelatedServersOrder ==
  RelatedServersAnswered =>
    LET o == LastUser IN
    /\ Range(OutIds) = InvitedIds(o) \cup JoinedIds(o) \cup OwnedIds(o)
    /\ \A i, j \in DOMAIN OutIds :
         i < j =>
           /\ Rank(o, OutIds[i]) <= Rank(o, OutIds[j])
           /\ (Rank(o, OutIds[i]) = 1 /\ Rank(o, OutIds[j]) = 1) =>
                FirstRef(users[o].invitesToChannels, OutIds[i])
                  < FirstRef(users[o].invitesToChannels, OutIds[j])
           /\ (Rank(o, OutIds[i]) = 2 /\ Rank(o, OutIds[j]) = 2) =>
                FirstRef(users[o].joinedChannels, OutIds[i])
                  < FirstRef(users[o].joinedChannels, OutIds[j])
    /\ Scenario(o) => OutIds = <<2, 1>>

C4_Witness ==
  RelatedServersAnswered /\ Scenario(LastUser) /\ OutIds = <<2, 1>>

\* A channel of o's lists whose serverId names no server.
HasOrphan(o) ==
  \E c \in Range(users[o].invitesToChannels) \cup Range(users[o].joinedChannels) :
    channels[c].exists /\ channels[c].serverId \notin ServerIds

(* C5: with a channel in U's lists whose serverId names no server,         *)
(* relatedServers(U) still answers 200 with the servers of the other       *)
(* channels and the owned servers, and no entry for the orphaned channel.  *)
C5_OrphanTolerated ==
  (last.op = "getRelatedServers" /\ UserExists(LastUser) /\ HasOrphan(LastUser)) =>
    /\ last.status = 200 /\ last.error = "none" /\ last.hasBody
    /\ \A i \in DOMAIN OutIds : OutIds[i] \in ServerIds
    /\ InvitedIds(LastUser) \cup JoinedIds(LastUser) \cup OwnedIds(LastUser) \subseteq Range(OutIds)

C5_Witness ==
  /\ RelatedServersAnswered /\ HasOrphan(LastUser)
  /\ InvitedIds(LastUser) \cup JoinedIds(LastUser) # {}
  /\ OwnedIds(LastUser) # {}
  /\ last.out # <<>>

(* C6: relatedChannels(U) for an existing U answers 200 with exactly the   *)
(* channels U is invited to and the channels of the servers U owns, made   *)
(* from the result of the channel query.                                   *)
C6_RelatedChannelsAnswered ==
  (last.op = "getRelatedChannels" /\ UserExists(LastUser)) =>
    /\ last.status = 200
    /\ last.hasBody
    /\ Range(last.out) = Range(RelatedChannelsQuery(LastUser))

AddAnswered == last.op = "updateFriends" /\ last.action = "add" /\ last.status = 200

DeleteAnswered == last.op = "updateFriends" /\ last.action = "delete" /\ last.status = 200

\* The ObjectIds the candidate list of the kept request names.
Candidates == {ObjectId(s) : s \in Range(last.body)}

C8_DeleteIsDifference ==
  DeleteAnswered =>
    /\ Friends(LastUser) = Range(last.pre[LastUser].friends) \ Candidates
    /\ (Candidates \cap Range(last.pre[LastUser].friends) = {}) =>
         users[LastUser].friends = last.pre[LastUser].friends
    /\ FriendsAfterDelete(users[LastUser], FilterSelf(last.body, last.id))
         = users[LastUser].friends

(* C9: starting from duplicate-free sets, none of friends, invitesTo,      *)
(* invitesFrom, invitesToChannels, joinedChannels of any identity ever     *)
(* holds the same id twice.                                                *)
C9_NoDuplicateIds ==
  \A a \in Ids : \A p \in RelPaths : NoDuplicates(users[a][p])

(* C10: no identity A holds the same id both in A.friends and in           *)
(* A.invitesTo or A.invitesFrom.                                           *)
C10_FriendNotInvited ==
  \A a \in Ids :
    Friends(a) \cap (Range(users[a].invitesTo) \cup Range(users[a].invitesFrom)) = {}

\* a has invited b and b has not answered.
InvitePending(a, b) ==
  /\ Includes(users[a].invitesTo, b)
  /\ Includes(users[b].invitesFrom, a)
  /\ b \notin Friends(a) /\ a \notin Friends(b)

(* C11: once A has invited B, the request by which B accepts (A enters     *)
(* B.friends) is one operation that updates both identities: after it B is *)
(* in A.friends, A is in B.friends, B is not in A.invitesTo and A is not   *)
(* in B.invitesFrom.                                                       *)
C11_AcceptUpdatesBoth ==
  [][\A a, b \in Ids :
       (a # b /\ InvitePending(a, b) /\ Includes(users'[b].friends, a)) =>
         /\ Includes(users'[a].friends, b)
         /\ ~Includes(users'[a].invitesTo, b)
         /\ ~Includes(users'[b].invitesFrom, a)]_vars

\* The kept request is a PATCH friends request that fails a check: the
\* friends field is not a non-empty list of ids, or the action is not add
\* or delete.
InvalidFriendsRequest ==
  /\ last.op = "updateFriends"
  /\ \/ last.body = <<>>
     \/ \E i \in DOMAIN last.body : last.body[i] \notin StrIds
     \/ last.action \notin {"add", "delete"}

(* C12: a PATCH friends request whose friends field fails validation or    *)
(* whose action is missing or not add/delete ends in an error, sends no    *)
(* response of its own and leaves every identity document unchanged.       *)
C12_InvalidRequestChangesNothing ==
  InvalidFriendsRequest =>
    /\ last.status = 0 /\ last.error # "none" /\ ~last.hasBody
    /\ users = last.pre

\* The action is missing on a request that would otherwise be carried out
\* and add a friend.
C12_Witness ==
  /\ InvalidFriendsRequest
  /\ last.action = "" /\ last.body # <<>>
  /\ UserExists(LastUser)
  /\ \E c \in Candidates : c # LastUser /\ UserExists(c) /\ c \notin Friends(LastUser)

(* C13: the error of a PATCH friends request with an invalid friends field *)
(* or a missing or invalid action carries status 422, distinct from the    *)
(* 500 given to store failures.                                            *)
C13_ValidationErrorIs422 ==
  InvalidFriendsRequest => last.error = "422"

(* C17: after deleteUser(X) succeeds, no remaining identity holds X's id   *)
(* in friends, invitesTo or invitesFrom.                                   *)
C17_DeleteCascades ==
  (last.op = "deleteUser" /\ last.status = 200) =>
    \A o \in Ids :
      UserExists(o) =>
        LastUser \notin Friends(o) \cup Range(users[o].invitesTo)
                                  \cup Range(users[o].invitesFrom)

(* C19: the bulk friend update on identity U, add or delete, writes only   *)
(* U's document: every other identity's document, the candidates'          *)
(* included, is as the request found it.                                   *)
C19_UpdateFriendsWritesOnlyU ==
  last.op = "updateFriends" =>
    \A o \in Ids : o # LastUser => users[o] = last.pre[o]

\* An add that gave U a new friend who exists and does not have U as a
\* friend.
C19_Witness ==
  /\ AddAnswered
  /\ \E c \in Friends(LastUser) \ Range(last.pre[LastUser].friends) :
       /\ c # LastUser /\ UserExists(c)
       /\ LastUser \notin Friends(c)

(* C18: every request to getFriends, getRelatedServers and updateFriends  *)
(* is answered when its handler has run: by a response or by an error      *)
(* passed to the error chain, also when the identity does not exist.       *)
C18_EveryRequestAnswered ==
  last.op \in {"getFriends", "getRelatedServers", "updateFriends"} =>
    (last.status # 0 \/ last.error # "none")

(* C14: absent an explicit logout, an identity's persisted availability   *)
(* is Online exactly when at least one connection is registered for it; an *)
(* identity with no registered connection, a freshly created one included, *)
(* is Offline.                                                             *)
C14_OnlineIffConnected ==
  \A o \in Ids :
    UserExists(o) => (users[o].availability = "Online" <=> ConnectionsFor(o) # {})

\* The kept request is a logout, or a login, of an authenticated identity.
LogoutOfUser == last.op = "logout" /\ last.auth \in {"user", "logouterr"}

LoginOfUser == last.op = "login" /\ last.auth = "user"

(* C15: a successful explicit logout of an authenticated identity leaves   *)
(* its persisted availability Offline, whatever connections of the         *)
(* registry still belong to it and whatever its availability was.          *)
C15_LogoutForcesOffline ==
  (LogoutOfUser /\ last.status = 200) =>
    /\ UserExists(LastUser)
    /\ users[LastUser].availability = "Offline"

\* A logout of an identity that was Online and keeps a registered
\* connection.
C15_Witness ==
  /\ LogoutOfUser /\ last.status = 200 /\ last.error = "none"
  /\ last.pre[LastUser].availability = "Online"
  /\ ConnectionsFor(LastUser) # {}

\* The socket ids of the live connections.
LiveIds == {c[1] : c \in sockets}

C20_SavedBeforeAnswered ==
  (LoginOfUser \/ LogoutOfUser) =>
    /\ last.status = 200 =>
         /\ last.fails = "none"
         /\ UserExists(LastUser)
         /\ users[LastUser].availability = (IF last.op = "login" THEN "Online" ELSE "Offline")
    /\ last.fails = "save" =>
         /\ last.status = 0 /\ last.error # "none"
         /\ users = last.pre

\* A logout whose save failed while the identity was Online.
C20_Witness ==
  /\ LogoutOfUser /\ last.auth = "user"
  /\ last.fails = "save"
  /\ users[LastUser].availability = "Online"

\* The ObjectIds the kept PATCH body names for path p.
BodyIds(p) == {ObjectId(x) : x \in Range(last.body[p])}

(* C21: updateUser sets a relationship field F present in the body to      *)
(* (old F minus body[F]) when the remove query lists F and to (old F union *)
(* body[F]) otherwise; the relationship fields absent from the body are    *)
(* left unchanged.                                                         *)
C21_UpdateUserSetSemantics ==
  (last.op = "updateUser" /\ last.status = 200) =>
    \A p \in RelPaths :
      IF p \in DOMAIN last.body
      THEN Range(users[LastUser][p]) =
             (IF p \in last.remove
              THEN Range(last.pre[LastUser][p]) \ BodyIds(p)
              ELSE Range(last.pre[LastUser][p]) \cup BodyIds(p))
      ELSE users[LastUser][p] = last.pre[LastUser][p]

(* C23: every handler answers a request at most once: no request gets both *)
(* a response and an error raised or passed on; logout in particular,      *)
(* neither without an authenticated user nor when the session's logout     *)
(* callback reports an error.                                              *)
C23_AnsweredAtMostOnce ==
  ~(last.status # 0 /\ last.error # "none")

(* C24: the bulk add action only adds ids of identities that exist in the  *)
(* store at the time of the request: a candidate that matches no identity  *)
(* is dropped, the request succeeds, and the id is not in U.friends.       *)
C24_AddOnlyExisting ==
  AddAnswered =>
    /\ \A f \in Friends(LastUser) \ Range(last.pre[LastUser].friends) : last.pre[f].exists
    /\ \A c \in Candidates : ~last.pre[c].exists => c \notin Friends(LastUser)

\* An answered add one of whose candidates matches no identity.
C24_Witness ==
  /\ AddAnswered
  /\ \E c \in Candidates : ~last.pre[c].exists /\ c # LastUser

\* The existing identities the candidate list of the request in slot r
\* names (the caller's own id is filtered out on arrival).
RaceCandidates(r) ==
  {o \in DOMAIN users : UserExists(o) /\ \E c \in Range(inflight[r].body) : ObjectId(c) = o}

====
